---- MODULE Spec2Model ----
(***************************************************************************)
(* State-machine model of src/components/useAutoScroll.ts: the React hook  *)
(* useAutoScroll (effect, cleanup, tick, updatePointerY) and the resolver  *)
(* findScrollableAncestor, together with the parts of the platform the     *)
(* hook talks to (the animation-frame queue, the window's wheel listeners, *)
(* the ancestor chain of the #content element).                            *)
(*                                                                         *)
(* Numbers.  speedRef and scrollTop are rationals in the source.  They are *)
(* kept exactly, as integer numerators over SpeedDen = threshold^2:        *)
(*   -maxSpeed * ratio * ratio, ratio = 1 - d/threshold                    *)
(*     = -maxSpeed * (threshold - d)^2 / threshold^2.                      *)
(***************************************************************************)
EXTENDS Integers, Sequences, FiniteSets, TLC

VARIABLES
    phase,          \* "rendered" (hook called, effect not yet run), "mounted", "unmounted"
    isDragging,     \* the isDragging argument the last effect run saw
    dom,            \* the document: ancestor chain of #content, scrolling element, viewport
    speedRef,       \* speedRef.current, numerator over SpeedDen
    rafRef,         \* rafRef.current: a frame handle, or NullFrame
    containerRef,   \* containerRef.current: an element id, or NullEl
    onScrollRef,    \* onScrollRef.current: an observer id, or NoObserver
    hasCleanup,     \* the last effect run returned the cleanup closure of lines 49-55
    pending,        \* handles of the frame callbacks the browser still has to run
    nextRaf,        \* the handle the next requestAnimationFrame call returns
    wheelListeners, \* number of blockWheel listeners installed on window
    scrollTop,      \* scrollTop of every element, numerator over SpeedDen
    obsLast,        \* the observer invocation of the last step, if it made one
    wheelPrevented, \* whether the last wheel event had its default action prevented
    resolved,       \* whether the last drag start resolved a scroll target
    everStarted,    \* whether a frame loop was ever started
    lastOp,         \* the event that produced this state
    pointerSeen,    \* updatePointerY was called since the last drag start or end
    lookup,         \* line 32 as it last ran: the #content lookup and the resolver's result
    lastPtr         \* the pointer coordinate of the last updatePointerY call, and of the
                    \* call right before it with the speed that one stored

vars == <<phase, isDragging, dom, speedRef, rafRef, containerRef, onScrollRef,
          hasCleanup, pending, nextRaf, wheelListeners, scrollTop,
          obsLast, wheelPrevented, resolved, everStarted, lastOp, pointerSeen,
          lookup, lastPtr>>

-----------------------------------------------------------------------------
(* Bounds of the exploration *)

\* longest ancestor chain below <body>, the #content element included
MaxChain == 1
\* the same, in the runs of the resolver alone
MaxDepth == 2
\* number of frame handles the browser hands out
MaxRaf == 3

(* Program constants *)

threshold == 100
maxSpeed == 15
SpeedDen == threshold * threshold

\* rafRef.current === null
NullFrame == 0
\* the first handle requestAnimationFrame returns
FirstFrame == NullFrame + 1

NullEl == "null"
Body == "body"
Html == "html"
NoObserver == "none"
Observers == {"f", "g"}

-----------------------------------------------------------------------------
(* The document *)

ElemIds == <<"e1", "e2", "e3">>
AllEls == {ElemIds[i] : i \in 1..Len(ElemIds)} \cup {Body, Html}

OverflowYs == {"visible", "auto", "scroll"}
\* scrollHeight / clientHeight pairs: content that fits, content that overflows
Metrics == {[scrollHeight |-> 300, clientHeight |-> 300],
            [scrollHeight |-> 600, clientHeight |-> 300]}
\* getBoundingClientRect() of an element: a tall box and one lower than 2 * threshold
Rects == {[top |-> 50, bottom |-> 350], [top |-> 50, bottom |-> 150]}
ViewportHeights == {400}
PointerYs == {0, 50, 100, 200, 350}
\* with a coordinate between them, for the runs that compare successive pointer positions
FinePointerYs == PointerYs \cup {125}

Element == [overflowY : OverflowYs, metrics : Metrics, rect : Rects]

\* the elements of the documents a drag is explored in: one that does not scroll
\* and one that does, of either height
DragElements ==
    {e \in Element : e.overflowY \in {"visible", "auto"}
                      /\ e.metrics.scrollHeight > e.metrics.clientHeight}

RECURSIVE SeqsUpTo(_, _)
SeqsUpTo(S, n) ==
    IF n = 0 THEN {<< >>}
    ELSE LET shorter == SeqsUpTo(S, n - 1)
         IN  shorter \cup {Append(s, e) : s \in {t \in shorter : Len(t) = n - 1}, e \in S}

\* chain: #content and its ancestors below <body>, innermost first; << >> when
\* getElementById('content') finds nothing.  attached: the outermost chain element's
\* parent is <body> (otherwise its parentElement is null).
Documents(E, n) ==
    [chain : SeqsUpTo(E, n),
     attached : BOOLEAN,
     scrollingElement : {Html, Body, NullEl},
     innerHeight : ViewportHeights]

\* one record per document: attached says nothing when there is no chain
WellFormed(d) == d.chain = << >> => d.attached

-----------------------------------------------------------------------------
(* findScrollableAncestor, lines 90-108 *)

\* a ?? b with the fallback dropped
CoalesceLeft(a, b) == a

\* a ?? b
Coalesce(a, b) == IF a # NullEl THEN a ELSE b

\* position of a chain element in d.chain
IndexOf(d, el) == CHOOSE i \in 1..Len(d.chain) : ElemIds[i] = el

\* document.getElementById('content')
getElementById(d) == IF d.chain = << >> THEN NullEl ELSE ElemIds[1]

\* current.parentElement
parentElement(d, el) ==
    IF el = Html THEN NullEl
    ELSE IF el = Body THEN Html
    ELSE IF IndexOf(d, el) < Len(d.chain) THEN ElemIds[IndexOf(d, el) + 1]
    ELSE IF d.attached THEN Body
    ELSE NullEl

\* IsScrollable without line 101: the style alone decides
IsScrollableStyleOnly(e) == e.overflowY \in {"auto", "scroll"}

\* the test of lines 99-102
IsScrollable(e) ==
    /\ e.overflowY \in {"auto", "scroll"}
    /\ e.metrics.scrollHeight > e.metrics.clientHeight

RECURSIVE findScrollableAncestor(_, _)
findScrollableAncestor(d, current) ==
    IF current = NullEl THEN Coalesce(d.scrollingElement, NullEl)
    ELSE IF current = Body \/ current = Html THEN Coalesce(d.scrollingElement, current)
    ELSE IF IsScrollable(d.chain[IndexOf(d, current)]) THEN current
    ELSE findScrollableAncestor(d, parentElement(d, current))

NoLookup == [root |-> NullEl, el |-> NullEl]

\* line 32: const el = findScrollableAncestor(document.getElementById('content'))
Lookup(d) == [root |-> getElementById(d), el |-> findScrollableAncestor(d, getElementById(d))]

-----------------------------------------------------------------------------
(* The hook's refs and the platform state they act on, as one record, so that *)
(* the cleanup and the effect body can run one after the other in one step.    *)

Ctl ==
    [speedRef |-> speedRef, rafRef |-> rafRef, containerRef |-> containerRef,
     hasCleanup |-> hasCleanup, pending |-> pending, nextRaf |-> nextRaf,
     wheelListeners |-> wheelListeners]

\* RequestFrame with the handle not stored: requestAnimationFrame(tick) alone
RequestFrameDropsHandle(c) ==
    [c EXCEPT !.pending = c.pending \cup {c.nextRaf},
              !.nextRaf = c.nextRaf + 1]

\* requestAnimationFrame(tick) followed by rafRef.current = <the handle>
RequestFrame(c) ==
    [c EXCEPT !.rafRef = c.nextRaf,
              !.pending = c.pending \cup {c.nextRaf},
              !.nextRaf = c.nextRaf + 1]

\* CancelFrame with the cancelAnimationFrame call left out: the handle is forgotten,
\* the callback stays scheduled
CancelFrameOnlyNulls(c) ==
    IF c.rafRef # NullFrame THEN [c EXCEPT !.rafRef = NullFrame] ELSE c

\* if (rafRef.current !== null) { cancelAnimationFrame(rafRef.current); rafRef.current = null }
CancelFrame(c) ==
    IF c.rafRef # NullFrame
    THEN [c EXCEPT !.pending = c.pending \ {c.rafRef}, !.rafRef = NullFrame]
    ELSE c

\* RunCleanup without lines 50-53: the frame is not cancelled
RunCleanupKeepsFrame(c) ==
    IF c.hasCleanup
    THEN [c EXCEPT !.wheelListeners = c.wheelListeners - 1, !.hasCleanup = FALSE]
    ELSE c

\* RunCleanup without line 54: blockWheel stays installed
RunCleanupKeepsWheel(c) ==
    IF c.hasCleanup THEN [CancelFrame(c) EXCEPT !.hasCleanup = FALSE] ELSE c

\* the closure returned at lines 49-55, when the last effect run returned one
RunCleanup(c) ==
    IF c.hasCleanup
    THEN [CancelFrame(c) EXCEPT !.wheelListeners = c.wheelListeners - 1,
                                !.hasCleanup = FALSE]
    ELSE c

\* EffectStop without line 27: speed is not reset
EffectStopKeepsSpeed(c) ==
    [CancelFrame(c) EXCEPT !.containerRef = NullEl, !.hasCleanup = FALSE]

\* EffectStop without line 28: the target is not cleared
EffectStopKeepsTarget(c) ==
    [CancelFrame(c) EXCEPT !.speedRef = 0, !.hasCleanup = FALSE]

\* the effect body with isDragging false, lines 22-30
EffectStop(c) ==
    [CancelFrame(c) EXCEPT !.speedRef = 0, !.containerRef = NullEl,
                           !.hasCleanup = FALSE]

\* EffectStart without the early return of line 33
EffectStartNoNullCheck(c, el) ==
    [RequestFrame([c EXCEPT !.containerRef = el])
        EXCEPT !.wheelListeners = c.wheelListeners + 1,
               !.hasCleanup = TRUE]

\* the effect body with isDragging true, lines 32-55; el is the resolved target
EffectStart(c, el) ==
    IF el = NullEl THEN [c EXCEPT !.hasCleanup = FALSE]
    ELSE [RequestFrame([c EXCEPT !.containerRef = el])
             EXCEPT !.wheelListeners = c.wheelListeners + 1,
                    !.hasCleanup = TRUE]

\* one run of the effect of lines 21-56: React runs the previous run's cleanup first
RunEffect(c, dragging, d) ==
    IF dragging
    THEN EffectStart(RunCleanup(c), findScrollableAncestor(d, getElementById(d)))
    ELSE EffectStop(RunCleanup(c))

\* ComputeSpeed with distFromBottom's subtraction the wrong way round
ComputeSpeedSignSlip(clientY, top, bottom) ==
    LET distFromTop == clientY - top
        distFromBottom == clientY - bottom
    IN  IF distFromTop < threshold
        THEN -maxSpeed * (threshold - distFromTop) * (threshold - distFromTop)
        ELSE IF distFromBottom < threshold
        THEN maxSpeed * (threshold - distFromBottom) * (threshold - distFromBottom)
        ELSE 0

\* ComputeSpeed with the bottom-edge test ahead of the top-edge test
ComputeSpeedBottomFirst(clientY, top, bottom) ==
    LET distFromTop == clientY - top
        distFromBottom == bottom - clientY
    IN  IF distFromBottom < threshold
        THEN maxSpeed * (threshold - distFromBottom) * (threshold - distFromBottom)
        ELSE IF distFromTop < threshold
        THEN -maxSpeed * (threshold - distFromTop) * (threshold - distFromTop)
        ELSE 0

\* ComputeSpeed with the top-edge sign copied into the bottom-edge branch
ComputeSpeedBottomNegative(clientY, top, bottom) ==
    LET distFromTop == clientY - top
        distFromBottom == bottom - clientY
    IN  IF distFromTop < threshold
        THEN -maxSpeed * (threshold - distFromTop) * (threshold - distFromTop)
        ELSE IF distFromBottom < threshold
        THEN -maxSpeed * (threshold - distFromBottom) * (threshold - distFromBottom)
        ELSE 0

\* ComputeSpeed with ratio = dist / threshold, the "1 -" left out
ComputeSpeedRatioInverted(clientY, top, bottom) ==
    LET distFromTop == clientY - top
        distFromBottom == bottom - clientY
    IN  IF distFromTop < threshold
        THEN -maxSpeed * distFromTop * distFromTop
        ELSE IF distFromBottom < threshold
        THEN maxSpeed * distFromBottom * distFromBottom
        ELSE 0

\* RenderSameDrag with onScroll among the effect's dependencies: the effect runs again
RenderRerunsEffect(c, dragging, d) == RunEffect(c, dragging, d)

\* a render that leaves isDragging as it was: the dependencies of line 56 are
\* unchanged, the effect does not run
RenderSameDrag(c, dragging, d) == c

\* updatePointerY's speed, lines 72-83, as a numerator over SpeedDen
ComputeSpeed(clientY, top, bottom) ==
    LET distFromTop == clientY - top
        distFromBottom == bottom - clientY
    IN  IF distFromTop < threshold
        THEN -maxSpeed * (threshold - distFromTop) * (threshold - distFromTop)
        ELSE IF distFromBottom < threshold
        THEN maxSpeed * (threshold - distFromBottom) * (threshold - distFromBottom)
        ELSE 0

\* lines 66-71: the visible bounds of the scroll target
IsDocScroller(el) == el = Body \/ el = Html
\* el is an element of the document's chain; an element that was removed from the
\* document is not, and its getBoundingClientRect() is the empty rectangle at 0
InChain(d, el) == \E i \in 1..Len(d.chain) : ElemIds[i] = el
BoundTop(d, el) ==
    IF IsDocScroller(el) THEN 0
    ELSE IF InChain(d, el) THEN d.chain[IndexOf(d, el)].rect.top
    ELSE 0
BoundBottom(d, el) ==
    IF IsDocScroller(el) THEN d.innerHeight
    ELSE IF InChain(d, el) THEN d.chain[IndexOf(d, el)].rect.bottom
    ELSE 0

\* PointerSpeed without the guard of line 60: no target is taken for the viewport
PointerSpeedNoGuard(c, d, clientY) ==
    IF c.containerRef = NullEl THEN ComputeSpeed(clientY, 0, d.innerHeight)
    ELSE ComputeSpeed(clientY, BoundTop(d, c.containerRef), BoundBottom(d, c.containerRef))

\* updatePointerY, lines 58-84: the new speedRef.current
PointerSpeed(c, d, clientY) ==
    IF c.containerRef = NullEl THEN c.speedRef
    ELSE ComputeSpeed(clientY, BoundTop(d, c.containerRef), BoundBottom(d, c.containerRef))

\* PointerUpdate that resolves the scroll target again on every call
PointerUpdateReResolves(c, d, clientY) ==
    LET again == [c EXCEPT !.containerRef = Lookup(d).el]
    IN  [again EXCEPT !.speedRef = PointerSpeed(again, d, clientY)]

\* updatePointerY, lines 58-84, on the refs
PointerUpdate(c, d, clientY) == [c EXCEPT !.speedRef = PointerSpeed(c, d, clientY)]

\* TickScrolls without the speed test of line 37
TickScrollsIgnoresSpeed(c) == c.containerRef # NullEl

\* tick's condition, line 37
TickScrolls(c) == c.speedRef # 0 /\ c.containerRef # NullEl

-----------------------------------------------------------------------------
(* Actions *)

NoPtr == [called |-> FALSE, y |-> 0, prevCalled |-> FALSE, prevY |-> 0, prevSpeed |-> 0]
NoCall == [by |-> NoObserver, arg |-> 0]

Apply(c) ==
    /\ speedRef' = c.speedRef
    /\ rafRef' = c.rafRef
    /\ containerRef' = c.containerRef
    /\ hasCleanup' = c.hasCleanup
    /\ pending' = c.pending
    /\ nextRaf' = c.nextRaf
    /\ wheelListeners' = c.wheelListeners

\* the state after the first render, in one of the documents docs
InitIn(docs) ==
    /\ phase = "rendered"
    /\ isDragging = FALSE
    /\ dom \in {d \in docs : WellFormed(d)}
    /\ speedRef = 0
    /\ rafRef = NullFrame
    /\ containerRef = NullEl
    /\ onScrollRef \in Observers \cup {NoObserver}
    /\ hasCleanup = FALSE
    /\ pending = {}
    /\ nextRaf = FirstFrame
    /\ wheelListeners = 0
    /\ scrollTop = [e \in AllEls |-> 0]
    /\ obsLast = NoCall
    /\ wheelPrevented = FALSE
    /\ resolved = FALSE
    /\ everStarted = FALSE
    /\ lastOp = "init"
    /\ pointerSeen = FALSE
    /\ lookup = NoLookup
    /\ lastPtr = NoPtr

Init == InitIn(Documents(DragElements, MaxChain))

\* what every run of the effect leaves alone
EffectFrame ==
    /\ wheelPrevented' = FALSE
    /\ lastPtr' = NoPtr
    /\ obsLast' = NoCall
    /\ pointerSeen' = FALSE
    /\ UNCHANGED <<dom, scrollTop>>

\* a render that changes isDragging to true (or the first one, with it true),
\* followed by the effect
DragStart ==
    /\ \/ phase = "rendered"
       \/ phase = "mounted" /\ ~isDragging
    /\ nextRaf <= MaxRaf
    /\ phase' = "mounted"
    /\ isDragging' = TRUE
    /\ Apply(RunEffect(Ctl, TRUE, dom))
    /\ lookup' = Lookup(dom)
    /\ resolved' = (Lookup(dom).el # NullEl)
    /\ everStarted' = (everStarted \/ RunEffect(Ctl, TRUE, dom).rafRef # NullFrame)
    /\ lastOp' = "start"
    /\ UNCHANGED onScrollRef
    /\ EffectFrame

\* a render that changes isDragging to false (or the first one, with it false),
\* followed by the effect
DragStop ==
    /\ \/ phase = "rendered"
       \/ phase = "mounted" /\ isDragging
    /\ phase' = "mounted"
    /\ isDragging' = FALSE
    /\ Apply(RunEffect(Ctl, FALSE, dom))
    /\ resolved' = FALSE
    /\ lastOp' = "stop"
    /\ UNCHANGED <<onScrollRef, everStarted, lookup>>
    /\ EffectFrame

\* unmount: React runs the last effect run's cleanup, and nothing else
Teardown ==
    /\ phase = "mounted"
    /\ phase' = "unmounted"
    /\ Apply(RunCleanup(Ctl))
    /\ lastOp' = "teardown"
    /\ UNCHANGED <<isDragging, onScrollRef, resolved, everStarted, lookup>>
    /\ EffectFrame

\* a render with isDragging unchanged and another onScroll: line 19, no effect run
SetObserver ==
    /\ phase = "mounted"
    /\ \E o \in (Observers \cup {NoObserver}) \ {onScrollRef} : onScrollRef' = o
    /\ Apply(RenderSameDrag(Ctl, isDragging, dom))
    /\ lastOp' = "observer"
    /\ obsLast' = NoCall
    /\ wheelPrevented' = FALSE
    /\ lastPtr' = NoPtr
    /\ UNCHANGED <<phase, isDragging, dom, scrollTop, resolved, everStarted, lookup,
                   pointerSeen>>

\* updatePointerY(clientY), lines 58-84, with clientY drawn from Ys; track: remember
\* the call right before this one, for the properties that compare two calls
PointerCall(Ys, track) ==
    /\ \E clientY \in Ys :
          /\ Apply(PointerUpdate(Ctl, dom, clientY))
          /\ lastPtr' = IF track /\ lastOp = "pointer" /\ lastPtr.called
                              /\ containerRef # NullEl
                         THEN [called |-> TRUE, y |-> clientY, prevCalled |-> TRUE,
                               prevY |-> lastPtr.y, prevSpeed |-> speedRef]
                         ELSE [NoPtr EXCEPT !.called = TRUE, !.y = clientY]
    /\ lastOp' = "pointer"
    /\ pointerSeen' = TRUE
    /\ obsLast' = NoCall
    /\ wheelPrevented' = FALSE
    /\ UNCHANGED <<phase, isDragging, dom, onScrollRef, scrollTop, resolved, everStarted,
                   lookup>>

UpdatePointerY == PointerCall(PointerYs, FALSE)

\* the same call in the runs that compare successive pointer positions
UpdatePointerYTracked == PointerCall(FinePointerYs, TRUE)

\* the browser runs a pending frame callback: tick, lines 36-42
Tick ==
    /\ nextRaf <= MaxRaf
    /\ \E h \in pending :
          Apply(RequestFrame([Ctl EXCEPT !.pending = pending \ {h}]))
    /\ IF TickScrolls(Ctl)
       THEN /\ scrollTop' = [scrollTop EXCEPT ![containerRef] = @ + speedRef]
            /\ obsLast' = IF onScrollRef # NoObserver
                          THEN [by |-> onScrollRef, arg |-> scrollTop'[containerRef]]
                          ELSE NoCall
       ELSE /\ obsLast' = NoCall
            /\ UNCHANGED scrollTop
    /\ lastOp' = "tick"
    /\ wheelPrevented' = FALSE
    /\ lastPtr' = NoPtr
    /\ UNCHANGED <<phase, isDragging, dom, onScrollRef, resolved, everStarted, lookup,
                   pointerSeen>>

\* a wheel event dispatched on window: every installed blockWheel calls preventDefault
Wheel ==
    /\ wheelPrevented' = (wheelListeners > 0)
    /\ lastOp' = "wheel"
    /\ obsLast' = NoCall
    /\ lastPtr' = NoPtr
    /\ UNCHANGED <<phase, isDragging, dom, speedRef, rafRef, containerRef, onScrollRef,
                   hasCleanup, pending, nextRaf, wheelListeners, scrollTop,
                   resolved, everStarted, lookup, pointerSeen>>

\* the host removes the scroll target from the document in the middle of a drag:
\* #content, inside the removed subtree, is gone with it; the refs are untouched
Detach ==
    /\ phase = "mounted" /\ isDragging
    /\ containerRef # NullEl
    /\ InChain(dom, containerRef)
    /\ dom' = [dom EXCEPT !.chain = << >>, !.attached = TRUE]
    /\ lastOp' = "detach"
    /\ obsLast' = NoCall
    /\ wheelPrevented' = FALSE
    /\ lastPtr' = NoPtr
    /\ UNCHANGED <<phase, isDragging, speedRef, rafRef, containerRef, onScrollRef,
                   hasCleanup, pending, nextRaf, wheelListeners, scrollTop,
                   resolved, everStarted, lookup, pointerSeen>>

Next ==
    \/ DragStart
    \/ DragStop
    \/ Teardown
    \/ SetObserver
    \/ UpdatePointerY
    \/ Tick
    \/ Wheel
    \/ Detach

Spec == Init /\ [][Next]_vars

\* drags and pointer movement alone: the runs that compare successive pointer positions
NextPointer ==
    \/ DragStart
    \/ DragStop
    \/ UpdatePointerYTracked

SpecPointer == Init /\ [][NextPointer]_vars

\* the resolver alone: line 32 run once, in every document of chains up to MaxDepth
Resolve ==
    /\ lastOp = "init"
    /\ lookup' = Lookup(dom)
    /\ lastOp' = "resolve"
    /\ UNCHANGED <<phase, isDragging, dom, speedRef, rafRef, containerRef, onScrollRef,
                   hasCleanup, pending, nextRaf, wheelListeners, scrollTop, obsLast,
                   wheelPrevented, resolved, everStarted, lastPtr, pointerSeen>>

InitResolver == InitIn(Documents(Element, MaxDepth)) /\ onScrollRef = NoObserver

NextResolver == Resolve

SpecResolver == InitResolver /\ [][NextResolver]_vars

TypeOK ==
    /\ phase \in {"rendered", "mounted", "unmounted"}
    /\ isDragging \in BOOLEAN
    /\ rafRef \in NullFrame..MaxRaf
    /\ containerRef \in AllEls \cup {NullEl}
    /\ pending \subseteq FirstFrame..MaxRaf
    /\ wheelListeners \in Nat

-----------------------------------------------------------------------------
(* Vocabulary of the properties *)

\* a drag is active: the mounted hook's last effect run saw isDragging = true
DragActive == phase = "mounted" /\ isDragging

\* no scheduled frame, speed 0, no target, no wheel block
Cleared(c) ==
    /\ c.rafRef = NullFrame
    /\ c.pending = {}
    /\ c.speedRef = 0
    /\ c.containerRef = NullEl
    /\ c.wheelListeners = 0

\* the pointer's distance from the target's top bound / bottom bound at the last
\* updatePointerY call
PtrDistTop == lastPtr.y - BoundTop(dom, containerRef)
PtrDistBottom == BoundBottom(dom, containerRef) - lastPtr.y

\* the last step was an updatePointerY call that found a scroll target
PointerOnTarget == lastOp = "pointer" /\ lastPtr.called /\ containerRef # NullEl

-----------------------------------------------------------------------------
(* C1: in every reachable state the frame handle rafRef is non-null if and  *)
(* only if a drag is active and a scroll target was resolved for it.        *)
C1_FrameHandleIffActiveResolved ==
    (rafRef # NullFrame) <=> (DragActive /\ resolved)

\* a loop that has rescheduled itself at least once
C1_Witness == lastOp = "tick" /\ rafRef # NullFrame /\ DragActive /\ resolved

(* C2: in every reachable state, for every clientY updatePointerY may be    *)
(* called with, the stored speed lies in [-maxSpeed, maxSpeed].             *)
C2_SpeedWithinMaxSpeed ==
    /\ speedRef >= -maxSpeed * SpeedDen
    /\ speedRef <= maxSpeed * SpeedDen

(* C3, as claimed: after a drag stop, and equally after teardown during an  *)
(* active drag, there is no scheduled frame, speed is 0, no target is       *)
(* stored and no wheel interceptor is installed.                            *)
C3_StopAndTeardownClear ==
    lastOp \in {"stop", "teardown"} => Cleared(Ctl)

(* C3, amended: a drag stop leaves no scheduled frame, speed 0, no target   *)
(* and no wheel interceptor; teardown leaves no scheduled frame and no      *)
(* wheel interceptor (it leaves speed and the stored target as they were).  *)
C3_StopClearsTeardownCancels ==
    /\ lastOp = "stop" => Cleared(Ctl)
    /\ lastOp = "teardown" =>
          /\ rafRef = NullFrame
          /\ pending = {}
          /\ wheelListeners = 0

\* teardown in the middle of a drag that was scrolling
C3_Witness ==
    /\ lastOp = "teardown"
    /\ isDragging /\ resolved
    /\ speedRef # 0
    /\ containerRef # NullEl

(* C4: drag-stop is idempotent: from every reachable state, stopping twice  *)
(* gives the state stopping once gives (no scheduled frame, speed 0, no     *)
(* target, no wheel block); a stop right after a stop, and a stop when no   *)
(* loop was ever started, change nothing.                                   *)
C4_StopIdempotent ==
    LET once == RunEffect(Ctl, FALSE, dom)
        twice == RunEffect(once, FALSE, dom)
    IN  /\ twice = once
        /\ Cleared(once)
        /\ lastOp = "stop" => once = Ctl
        /\ ~everStarted => once = Ctl

\* a stop that ended a running loop
C4_Witness == lastOp = "stop" /\ everStarted /\ \E e \in AllEls : scrollTop[e] # 0

(* C5, as claimed: if the content root is not found at drag start, then for *)
(* the whole drag no frame loop runs, no wheel interceptor is installed and *)
(* no scroll target is stored.                                              *)
C5_NoContentRootDisables ==
    (DragActive /\ lookup.root = NullEl) =>
        /\ rafRef = NullFrame
        /\ pending = {}
        /\ wheelListeners = 0
        /\ containerRef = NullEl

(* C5, amended: if the content root is not found at drag start, the drag    *)
(* runs on the document's scrolling element when there is one (target       *)
(* stored, loop started, wheel interceptor installed); only when there is   *)
(* no scrolling element either is auto-scroll off for the whole drag: no    *)
(* frame loop, no wheel interceptor, no target, no scroll offset changed.   *)
C5_NoContentRootFallsBack ==
    [][ /\ (DragActive /\ lookup.root = NullEl
                       /\ dom.scrollingElement # NullEl)' =>
              /\ containerRef' = dom'.scrollingElement
              /\ rafRef' # NullFrame
              /\ pending' = {rafRef'}
              /\ wheelListeners' = 1
        /\ (DragActive /\ lookup.root = NullEl
                       /\ dom.scrollingElement = NullEl)' =>
              /\ rafRef' = NullFrame
              /\ pending' = {}
              /\ wheelListeners' = 0
              /\ containerRef' = NullEl
              /\ DragActive => scrollTop' = scrollTop
      ]_vars

\* a drag without content root and without scrolling element, pointer moving
C5_Witness ==
    /\ DragActive
    /\ lookup.root = NullEl
    /\ dom.scrollingElement = NullEl
    /\ lastOp = "pointer"

(* C6: if the resolution returns null at drag start, then for the rest of   *)
(* that drag no frame is scheduled, no wheel interceptor is installed, and  *)
(* every updatePointerY call leaves speed and all other state unchanged.    *)
C6_NullTargetDisables ==
    [][ /\ (DragActive /\ ~resolved)' =>
              /\ rafRef' = NullFrame
              /\ pending' = {}
              /\ wheelListeners' = 0
        /\ (DragActive /\ ~resolved /\ lastOp' = "pointer") =>
              /\ Ctl' = Ctl
              /\ scrollTop' = scrollTop
              /\ UNCHANGED <<phase, isDragging, onScrollRef, resolved>>
      ]_vars

\* a pointer update in a drag whose content root has no scrollable ancestor at all
C6_Witness ==
    /\ DragActive /\ ~resolved
    /\ lastOp = "pointer"
    /\ lookup.root # NullEl

(* C7, as claimed: in every state in which a drag is active a wheel event   *)
(* has its default action prevented; after the drag ended or the hook was   *)
(* torn down it is not prevented.                                           *)
C7_WheelPreventedIffDragging ==
    lastOp = "wheel" => (wheelPrevented <=> DragActive)

(* C7, amended: a wheel event has its default action prevented exactly in   *)
(* the states in which a drag is active and a scroll target was resolved    *)
(* for it; in a drag that resolved no target, after the drag ended and      *)
(* after teardown it is not prevented.                                      *)
C7_WheelPreventedIffActiveResolved ==
    lastOp = "wheel" => (wheelPrevented <=> (DragActive /\ resolved))

\* a wheel event after a drag that blocked the wheel has ended
C7_Witness ==
    /\ lastOp = "wheel"
    /\ ~wheelPrevented
    /\ phase = "mounted" /\ ~isDragging
    /\ everStarted

(* C8: once a drag has ended (by a stop or by teardown) no frame is         *)
(* scheduled and no frame step runs: until the next drag start no scroll    *)
(* offset changes and the observer is not invoked.                          *)
C8_NoFrameAfterDragEnd ==
    [][ /\ ~DragActive' => pending' = {}
        /\ ~DragActive =>
              /\ lastOp' # "tick"
              /\ scrollTop' = scrollTop
              /\ obsLast' = NoCall
      ]_vars

\* an event after the end of a drag that had scrolled
C8_Witness ==
    /\ phase = "mounted" /\ ~isDragging
    /\ lastOp = "observer"
    /\ \E e \in AllEls : scrollTop[e] # 0

(* C9: with an active target of bounds [top, bottom], after updatePointerY  *)
(* with clientY strictly between top + threshold and bottom - threshold,    *)
(* speed is 0.                                                              *)
C9_DeadZoneSpeedZero ==
    (PointerOnTarget /\ PtrDistTop > threshold /\ PtrDistBottom > threshold)
        => speedRef = 0

\* a pointer in the dead zone of a drag in progress
C9_Witness ==
    /\ PointerOnTarget /\ DragActive
    /\ PtrDistTop > threshold /\ PtrDistBottom > threshold
    /\ \E e \in AllEls : scrollTop[e] # 0

(* C10: with an active target, after updatePointerY with a pointer at       *)
(* distance d from the top bound, 0 <= d < 100, speed is                    *)
(* -15 * (1 - d/100)^2 (d = 0: -15, d = 50: -3.75), whatever the target's   *)
(* height and the previous speed.                                           *)
C10_TopEdgeSpeed ==
    (PointerOnTarget /\ PtrDistTop >= 0 /\ PtrDistTop < 100) =>
        /\ speedRef * 100 * 100 = -15 * (100 - PtrDistTop) * (100 - PtrDistTop) * SpeedDen
        /\ PtrDistTop = 0 => speedRef = -15 * SpeedDen
        /\ PtrDistTop = 50 => 4 * speedRef = -15 * SpeedDen

\* a pointer within 100 of both bounds of a low target
C10_Witness ==
    /\ PointerOnTarget
    /\ PtrDistTop = 50
    /\ PtrDistBottom < 100

(* C11, as claimed: with an active target, after updatePointerY with a      *)
(* pointer at distance d from the bottom bound, 0 <= d < 100, speed is      *)
(* +15 * (1 - d/100)^2, for every target height.                            *)
C11_BottomEdgeSpeed ==
    (PointerOnTarget /\ PtrDistBottom >= 0 /\ PtrDistBottom < 100) =>
        speedRef * 100 * 100
            = 15 * (100 - PtrDistBottom) * (100 - PtrDistBottom) * SpeedDen

(* C11, amended: with an active target, after updatePointerY with a pointer *)
(* at distance d from the bottom bound, 0 <= d < 100, and at distance 100   *)
(* or more from the top bound, speed is +15 * (1 - d/100)^2; when the       *)
(* pointer is also less than 100 from the top bound (a target lower than    *)
(* 200) the top-edge branch wins and speed is -15 * (1 - dTop/100)^2.       *)
C11_BottomEdgeSpeedUnlessTopWins ==
    (PointerOnTarget /\ PtrDistBottom >= 0 /\ PtrDistBottom < 100) =>
        IF PtrDistTop >= 100
        THEN speedRef * 100 * 100
                 = 15 * (100 - PtrDistBottom) * (100 - PtrDistBottom) * SpeedDen
        ELSE speedRef * 100 * 100
                 = -15 * (100 - PtrDistTop) * (100 - PtrDistTop) * SpeedDen

\* a pointer 50 above the bottom bound and far from the top bound
C11_Witness ==
    /\ PointerOnTarget
    /\ PtrDistBottom = 50
    /\ PtrDistTop >= 100
    /\ 4 * speedRef = 15 * SpeedDen

Abs(n) == IF n < 0 THEN -n ELSE n
Min(a, b) == IF a < b THEN a ELSE b

\* distance of pointer coordinate y from the nearer bound of the stored target, in
\* the source's terms: the smaller of distFromTop and distFromBottom
NearEdgeDist(y) ==
    Min(y - BoundTop(dom, containerRef), BoundBottom(dom, containerRef) - y)

TargetHeight == BoundBottom(dom, containerRef) - BoundTop(dom, containerRef)

\* the last two steps were updatePointerY calls on the stored target, the second
\* strictly closer to its nearer bound than the first
PointerMovedCloser ==
    /\ PointerOnTarget
    /\ lastPtr.prevCalled
    /\ NearEdgeDist(lastPtr.y) < NearEdgeDist(lastPtr.prevY)

(* C12, as claimed: for two successive updatePointerY calls on the same     *)
(* target, the second strictly closer to an edge than the first, |speed|    *)
(* after the second is at least |speed| after the first.                    *)
C12_CloserIsNotSlower ==
    PointerMovedCloser => Abs(speedRef) >= Abs(lastPtr.prevSpeed)

(* C12, amended: on a target at least 200 (2 * threshold) high, for two     *)
(* successive updatePointerY calls of which the second is strictly closer   *)
(* to its nearer edge than the first (distances clientY - top and           *)
(* bottom - clientY), |speed| after the second is at least |speed| after    *)
(* the first.                                                               *)
C12_CloserIsNotSlowerOnTallTarget ==
    (PointerMovedCloser /\ TargetHeight >= 2 * threshold)
        => Abs(speedRef) >= Abs(lastPtr.prevSpeed)

\* a pointer moving towards the top bound inside the top zone of a tall target
C12_Witness ==
    /\ PointerMovedCloser
    /\ TargetHeight >= 2 * threshold
    /\ lastPtr.prevSpeed # 0
    /\ Abs(speedRef) > Abs(lastPtr.prevSpeed)

-----------------------------------------------------------------------------
(* The resolver *)

\* the chain positions whose element has overflow auto or scroll and content higher
\* than its visible height
Qualifying(d) ==
    {i \in 1..Len(d.chain) :
        /\ d.chain[i].overflowY = "auto" \/ d.chain[i].overflowY = "scroll"
        /\ d.chain[i].metrics.scrollHeight > d.chain[i].metrics.clientHeight}

\* the walk from #content reaches <body>
ReachesBody(d) == d.chain # << >> /\ d.attached

(* C13: the resolver returns the first element on the walk from the start   *)
(* element upward, before <body>, whose vertical overflow is auto or scroll *)
(* and whose content is higher than its visible height; for A (visible) ->  *)
(* B (auto, overflowing) -> body it returns B.                              *)
C13_FirstScrollableAncestor ==
    lastOp = "resolve" =>
        /\ \A i \in Qualifying(dom) :
              (\A j \in Qualifying(dom) : i <= j) => lookup.el = ElemIds[i]
        /\ ( /\ Len(dom.chain) = 2
             /\ dom.attached
             /\ dom.chain[1].overflowY = "visible"
             /\ dom.chain[2].overflowY = "auto"
             /\ dom.chain[2].metrics.scrollHeight > dom.chain[2].metrics.clientHeight )
           => lookup.el = ElemIds[2]

\* an element with overflow auto and no overflowing content is skipped for its parent
C13_Witness ==
    /\ lastOp = "resolve"
    /\ Len(dom.chain) = 2
    /\ dom.chain[1].overflowY = "auto"
    /\ Qualifying(dom) = {2}
    /\ lookup.el = ElemIds[2]

-----------------------------------------------------------------------------
(* The frame loop *)

\* the stored target is no longer in the document
TargetDetached ==
    /\ containerRef # NullEl
    /\ ~IsDocScroller(containerRef)
    /\ ~InChain(dom, containerRef)

(* C15: every frame step does exactly this: with speed # 0 and a target set *)
(* it adds speed to the target's scroll offset and invokes the observer     *)
(* once with the resulting offset (pointer at the top edge: the offset      *)
(* drops by 15); with speed = 0 it leaves the offset alone and does not     *)
(* invoke the observer; either way it schedules exactly one next frame.     *)
C15_FrameStep ==
    [][ lastOp' = "tick" =>
          /\ IF speedRef # 0 /\ containerRef # NullEl
             THEN /\ scrollTop' = [scrollTop EXCEPT ![containerRef] = @ + speedRef]
                  /\ onScrollRef # NoObserver =>
                        obsLast' = [by |-> onScrollRef,
                                    arg |-> scrollTop[containerRef] + speedRef]
                  /\ onScrollRef = NoObserver => obsLast' = NoCall
             ELSE /\ scrollTop' = scrollTop
                  /\ obsLast' = NoCall
          /\ Cardinality(pending') = 1
          /\ pending' = {rafRef'}
          /\ rafRef' \notin pending
          /\ (PointerOnTarget /\ PtrDistTop = 0) =>
                scrollTop'[containerRef] = scrollTop[containerRef] - 15 * SpeedDen
      ]_vars

\* the first frame after the pointer reached the target's top edge
C15_Witness ==
    /\ lastOp = "tick"
    /\ DragActive
    /\ obsLast.by # NoObserver
    /\ obsLast.arg = -15 * SpeedDen
    /\ scrollTop[containerRef] = -15 * SpeedDen

(* C18: once the scroll target is removed from the document during a drag,  *)
(* every later frame step of that session leaves the removed element's      *)
(* scroll offset alone and does not invoke the observer, even with          *)
(* speed # 0.                                                               *)
C18_DetachedTargetStopsScrolling ==
    [][ (TargetDetached /\ lastOp' = "tick") =>
          /\ scrollTop' = scrollTop
          /\ obsLast' = NoCall
      ]_vars

(* C16: across every interleaving of drag starts, stops, teardown and frame *)
(* steps at most one frame callback is pending, it is the one rafRef names, *)
(* a stop or teardown leaves none pending, a start finds none pending from  *)
(* an earlier session, and the callback a frame step runs belongs to the    *)
(* running session: no stale loop runs on a cleared target or next to a new *)
(* session's loop.                                                          *)
C16_NoStaleFrame ==
    [][ /\ Cardinality(pending') <= 1
        /\ pending' \subseteq {rafRef'}
        /\ lastOp' \in {"stop", "teardown"} => pending' = {}
        /\ lastOp' = "start" =>
              /\ pending = {}
              /\ pending' \subseteq {nextRaf}
        /\ lastOp' = "tick" =>
              /\ DragActive /\ resolved
              /\ pending = {rafRef}
              /\ containerRef # NullEl
      ]_vars

\* a new session started after one that rescheduled itself and was stopped
C16_Witness ==
    /\ lastOp = "start"
    /\ rafRef = FirstFrame + 2
    /\ pending = {rafRef}
    /\ \E e \in AllEls : scrollTop[e] # 0

(* C17: updatePointerY changes only speed: it leaves the stored target, the *)
(* frame handle, the pending frame, the wheel interceptor and every scroll  *)
(* offset unchanged and neither starts nor ends a session; and the target   *)
(* stored at drag start stays the element resolved then until the drag      *)
(* ends, whatever pointer updates and frame steps happen in between.        *)
C17_PointerChangesOnlySpeed ==
    [][ /\ lastOp' = "pointer" =>
              UNCHANGED <<containerRef, rafRef, pending, nextRaf, hasCleanup,
                          wheelListeners, scrollTop, phase, isDragging, resolved,
                          onScrollRef>>
        /\ (DragActive /\ DragActive') => containerRef' = containerRef
        /\ (DragActive /\ resolved)' => containerRef' = lookup'.el
      ]_vars

\* a pointer update after the document changed under the drag: resolving again
\* would give another element
C17_Witness ==
    /\ lastOp = "pointer"
    /\ DragActive
    /\ TargetDetached
    /\ speedRef # 0
    /\ Lookup(dom).el # containerRef

(* C19: replacing the observer during a drag does not restart the session   *)
(* (frame handle and pending frame kept, speed kept, target and its         *)
(* resolution kept, wheel interceptor kept), and every frame step that      *)
(* applies a non-zero speed invokes the observer set at that moment.        *)
C19_ObserverReplacedInPlace ==
    [][ /\ lastOp' = "observer" =>
              UNCHANGED <<rafRef, pending, nextRaf, speedRef, containerRef,
                          wheelListeners, hasCleanup, lookup, resolved, scrollTop,
                          phase, isDragging>>
        /\ (lastOp' = "tick" /\ speedRef # 0 /\ containerRef # NullEl
                             /\ onScrollRef # NoObserver) =>
              obsLast'.by = onScrollRef
        /\ (lastOp' = "tick" /\ obsLast' # NoCall) => obsLast'.by = onScrollRef'
      ]_vars

\* an observer set in place of another in the middle of a drag that is scrolling
C19_Witness ==
    /\ lastOp = "observer"
    /\ DragActive /\ resolved
    /\ onScrollRef # NoObserver
    /\ rafRef # NullFrame
    /\ speedRef # 0
    /\ scrollTop[containerRef] # 0

(* C20: whenever a session starts, after any history of sessions, pointer   *)
(* updates and stops, speed is 0, and it stays 0 until the session's first  *)
(* updatePointerY call: no frame step before that call changes a scroll     *)
(* offset or invokes the observer.                                          *)
C20_SessionStartsAtRest ==
    [][ /\ lastOp' = "start" => speedRef' = 0
        /\ (DragActive /\ ~pointerSeen)' => speedRef' = 0
        /\ (DragActive /\ ~pointerSeen /\ lastOp' = "tick") =>
              /\ scrollTop' = scrollTop
              /\ obsLast' = NoCall
      ]_vars

\* a session started on a target that an earlier session had scrolled
C20_Witness ==
    /\ lastOp = "start"
    /\ DragActive /\ resolved
    /\ ~pointerSeen
    /\ scrollTop[lookup.el] # 0

====
